---- MODULE Spec2Model ----
(***************************************************************************)
(* Model of Code/main.py: class ArtifactGenerator (load_xml,               *)
(* generate_config_xml, generate_meta_json, generate_delta_json,           *)
(* generate_res_patched_config_json) and the orchestrator main().          *)
(*                                                                         *)
(* Files are modelled by their parsed content: [kind, data] with kind one  *)
(* of "missing" (open raises FileNotFoundError), "malformed" (the parser   *)
(* raises) and "ok".  A JSON object is a function from its keys to its     *)
(* values; its keys are listed in the order of KeySeq.  A Python dict that *)
(* is iterated in insertion order (self.classes) is a sequence of entries  *)
(* with distinct names.  None is the string "None".                        *)
(***************************************************************************)
EXTENDS Integers, Sequences, FiniteSets, TLC

VARIABLES
    xml_file,            \* content of self.xml_file
    config_file,         \* content of self.config_file (the base map)
    patched_config_file, \* content of self.patched_config_file (the target map)
    delta_json,          \* content of "delta.json"
    res_json,            \* content of "res_patched_config.json"
    config_xml,          \* content of "config.xml"
    meta_json,           \* content of "meta.json"
    classes,             \* self.classes
    root_class_name,     \* self.root_class_name
    res_patched_config,  \* the local of generate_res_patched_config_json when it returns
    ret,                 \* what each method returned ("-" before it returns)
    printed,             \* the messages printed so far
    written,             \* the files written by this run
    pc                   \* the statement of main() that runs next

vars == <<xml_file, config_file, patched_config_file, delta_json, res_json,
          config_xml, meta_json, classes, root_class_name, res_patched_config,
          ret, printed, written, pc>>

files == <<xml_file, config_file, patched_config_file, delta_json, res_json,
           config_xml, meta_json>>

\* ------------------------------------------------------------------ bounds

\* The longest schema description: Class and Aggregation elements under the root.
MaxDecls == 2
\* The most entries (additions + deletions + updates) of a delta.json left on disk.
MaxDelta == 2
\* The largest value of a flat map.
MaxValue == 2

Names == {"BTS", "MGMT"}
Keys == {"a", "b", "c"}
KeySeq == <<"a", "b", "c">>
DeltaKeys == {"a", "b"}
Values == 1..MaxValue
DeltaValues == {1, 2}

\* ------------------------------------------------------------------- files

None == "None"
Missing == [kind |-> "missing", data |-> <<>>]
Malformed == [kind |-> "malformed", data |-> <<>>]
File(d) == [kind |-> "ok", data |-> d]

SeqsUpTo(S, n) == UNION {[1..k -> S] : k \in 0..n}

\* ------------------------------------------------------- the schema (XML)

Attributes == {<<>>, <<[name |-> "id", type |-> "uint32"]>>}

ClassDecls ==
    [tag : {"Class"}, name : Names, isRoot : {"true", "false"},
     documentation : {"Management related"}, children : Attributes]

AggregationDecls ==
    [tag : {"Aggregation"}, source : Names, target : Names,
     sourceMultiplicity : {"0..100", "1"}, targetMultiplicity : {"1"}]

XmlDocs == SeqsUpTo(ClassDecls \cup AggregationDecls, MaxDecls)

\* ---------------------------------------------------------------- load_xml

HasClass(cs, n) == \E i \in 1..Len(cs) : cs[i].name = n

\* self.classes[class_name] = {...}: a new key goes last, a known key keeps its place
SetClass(cs, entry) ==
    IF HasClass(cs, entry.name)
    THEN [i \in 1..Len(cs) |-> IF cs[i].name = entry.name THEN entry ELSE cs[i]]
    ELSE Append(cs, entry)

ClassEntry(e) ==
    [name |-> e.name,
     isRoot |-> (e.isRoot = "true"),
     documentation |-> e.documentation,
     attributes |-> e.children,
     aggregations |-> <<>>]

\* self.classes[source]["aggregations"].append({...})
AddAggregation(cs, e) ==
    [i \in 1..Len(cs) |->
        IF cs[i].name = e.source
        THEN [cs[i] EXCEPT !.aggregations =
                 Append(@, [target |-> e.target,
                            sourceMultiplicity |-> e.sourceMultiplicity,
                            targetMultiplicity |-> e.targetMultiplicity])]
        ELSE cs[i]]

\* The loop over the root's children, from a generator state st = [classes, root,
\* raised]: it stops at the first Aggregation whose source is no key of
\* self.classes (KeyError), leaving what the earlier elements stored.
RECURSIVE LoadElements(_, _)
LoadElements(doc, st) ==
    IF doc = <<>> \/ st.raised THEN st
    ELSE LET e == Head(doc) IN
         IF e.tag = "Class"
         THEN LoadElements(Tail(doc),
                  [classes |-> SetClass(st.classes, ClassEntry(e)),
                   root |-> IF e.isRoot = "true" THEN e.name ELSE st.root,
                   raised |-> FALSE])
         ELSE IF HasClass(st.classes, e.source)
              THEN LoadElements(Tail(doc),
                       [st EXCEPT !.classes = AddAggregation(st.classes, e)])
              ELSE [st EXCEPT !.raised = TRUE]

Loaded(doc) == LoadElements(doc, [classes |-> <<>>, root |-> None, raised |-> FALSE])

\* except FileNotFoundError: print, return False; main prints and returns
LoadXmlNotFound ==
    /\ pc = "load_xml"
    /\ xml_file.kind = "missing"
    /\ ret' = [ret EXCEPT !.load_xml = "False"]
    /\ printed' = printed \cup {"xml not found", "xml not loaded, exit"}
    /\ pc' = "returned"
    /\ UNCHANGED <<files, classes, root_class_name, res_patched_config, written>>

\* except ET.ParseError: print, return False; main prints and returns
LoadXmlParseError ==
    /\ pc = "load_xml"
    /\ xml_file.kind = "malformed"
    /\ ret' = [ret EXCEPT !.load_xml = "False"]
    /\ printed' = printed \cup {"xml not parsed", "xml not loaded, exit"}
    /\ pc' = "returned"
    /\ UNCHANGED <<files, classes, root_class_name, res_patched_config, written>>

\* self.classes[source] raises KeyError, which no except clause of load_xml or
\* main catches: the interpreter ends with a traceback
LoadXmlKeyError ==
    /\ pc = "load_xml"
    /\ xml_file.kind = "ok"
    /\ Loaded(xml_file.data).raised
    /\ classes' = Loaded(xml_file.data).classes
    /\ root_class_name' = Loaded(xml_file.data).root
    /\ pc' = "raised"
    /\ UNCHANGED <<files, res_patched_config, ret, printed, written>>

LoadXmlOk ==
    /\ pc = "load_xml"
    /\ xml_file.kind = "ok"
    /\ ~Loaded(xml_file.data).raised
    /\ classes' = Loaded(xml_file.data).classes
    /\ root_class_name' = Loaded(xml_file.data).root
    /\ ret' = [ret EXCEPT !.load_xml = "True"]
    /\ pc' = "generate_config_xml"
    /\ UNCHANGED <<files, res_patched_config, printed, written>>

\* ----------------------------------------------------- generate_config_xml

Leaf(tag, text) == [tag |-> tag, text |-> text, children |-> <<>>]
Node(tag, children) == [tag |-> tag, text |-> "", children |-> children]

\* the literal document, as the element tree it parses to
xml_content ==
    Node("BTS",
         <<Leaf("id", "uint32"),
           Leaf("name", "string"),
           Node("MGMT",
                <<Node("MetricJob",
                       <<Leaf("isFinished", "boolean"), Leaf("jobId", "uint32")>>),
                  Node("CPLANE", <<>>)>>),
           Node("HWE",
                <<Node("RU",
                       <<Leaf("hwRevision", "string"),
                         Leaf("id", "uint32"),
                         Leaf("ipv4Address", "string"),
                         Leaf("manufacturerName", "string")>>)>>),
           Node("COMM", <<>>)>>)

GenerateConfigXmlOk ==
    /\ pc = "generate_config_xml"
    /\ config_xml' = File(xml_content)
    /\ written' = written \cup {"config.xml"}
    /\ printed' = printed \cup {"config.xml generated"}
    /\ ret' = [ret EXCEPT !.generate_config_xml = "True"]
    /\ pc' = "generate_meta_json"
    /\ UNCHANGED <<xml_file, config_file, patched_config_file, delta_json, res_json,
                   meta_json, classes, root_class_name, res_patched_config>>

\* open(output_file, "w") raises IOError
GenerateConfigXmlIOError ==
    /\ pc = "generate_config_xml"
    /\ printed' = printed \cup {"config.xml not written"}
    /\ ret' = [ret EXCEPT !.generate_config_xml = "False"]
    /\ pc' = "generate_meta_json"
    /\ UNCHANGED <<files, classes, root_class_name, res_patched_config, written>>

\* ------------------------------------------------------ generate_meta_json

Param(n, t) == [name |-> n, type |-> t]

meta_data ==
    <<[class |-> "MetricJob", documentation |-> "Perfomance metric job",
       isRoot |-> FALSE, min |-> "0", max |-> "100",
       parameters |-> <<Param("isFinished", "boolean"), Param("jobId", "uint32")>>],
      [class |-> "CPLANE", documentation |-> "Perfomance metric job",
       isRoot |-> FALSE, min |-> "0", max |-> "1",
       parameters |-> <<>>],
      [class |-> "MGMT", documentation |-> "Management related",
       isRoot |-> FALSE, min |-> "1", max |-> "1",
       parameters |-> <<Param("MetricJob", "class"), Param("CPLANE", "class")>>],
      [class |-> "RU", documentation |-> "Radio Unit hardware element",
       isRoot |-> FALSE, min |-> "0", max |-> "42",
       parameters |-> <<Param("hwRevision", "string"), Param("id", "uint32"),
                        Param("ipv4Address", "string"),
                        Param("manufacturerName", "string")>>],
      [class |-> "HWE", documentation |-> "Hardware equipment",
       isRoot |-> FALSE, min |-> "1", max |-> "1",
       parameters |-> <<Param("RU", "class")>>],
      [class |-> "COMM", documentation |-> "Communication services",
       isRoot |-> FALSE, min |-> "1", max |-> "1",
       parameters |-> <<>>],
      [class |-> "BTS",
       documentation |-> "Base Transmitter Station. This is the only root class",
       isRoot |-> TRUE,
       parameters |-> <<Param("id", "uint32"), Param("name", "string"),
                        Param("MGMT", "class"), Param("HWE", "class"),
                        Param("COMM", "class")>>]>>

GenerateMetaJsonOk ==
    /\ pc = "generate_meta_json"
    /\ meta_json' = File(meta_data)
    /\ written' = written \cup {"meta.json"}
    /\ printed' = printed \cup {"meta.json generated"}
    /\ ret' = [ret EXCEPT !.generate_meta_json = "True"]
    /\ pc' = "generate_delta_json"
    /\ UNCHANGED <<xml_file, config_file, patched_config_file, delta_json, res_json,
                   config_xml, classes, root_class_name, res_patched_config>>

GenerateMetaJsonIOError ==
    /\ pc = "generate_meta_json"
    /\ printed' = printed \cup {"meta.json not written"}
    /\ ret' = [ret EXCEPT !.generate_meta_json = "False"]
    /\ pc' = "generate_delta_json"
    /\ UNCHANGED <<files, classes, root_class_name, res_patched_config, written>>

\* ----------------------------------------------------- generate_delta_json

\* the keys of a dict in the order its iteration yields them
KeysOf(m) == SelectSeq(KeySeq, LAMBDA k : k \in DOMAIN m)

\* a mutation of DeltaAdditions: the test "key not in config_data" is lost
DeltaAdditionsNoTest(config_data, patched_config_data) ==
    LET ks == KeysOf(patched_config_data)
    IN  [i \in 1..Len(ks) |-> [key |-> ks[i], value |-> patched_config_data[ks[i]]]]

\* for key, value in patched: if key not in config_data: additions.append(...)
DeltaAdditions(config_data, patched_config_data) ==
    LET ks == SelectSeq(KeysOf(patched_config_data),
                        LAMBDA k : k \notin DOMAIN config_data)
    IN  [i \in 1..Len(ks) |-> [key |-> ks[i], value |-> patched_config_data[ks[i]]]]

\* elif config_data[key] != value: updates.append(...)
DeltaUpdates(config_data, patched_config_data) ==
    LET ks == SelectSeq(KeysOf(patched_config_data),
                        LAMBDA k : k \in DOMAIN config_data
                                   /\ config_data[k] # patched_config_data[k])
    IN  [i \in 1..Len(ks) |->
            [key |-> ks[i], from |-> config_data[ks[i]],
             to |-> patched_config_data[ks[i]]]]

\* for key in config_data: if key not in patched_config_data: deletions.append(key)
DeltaDeletions(config_data, patched_config_data) ==
    SelectSeq(KeysOf(config_data), LAMBDA k : k \notin DOMAIN patched_config_data)

Delta(config_data, patched_config_data) ==
    [additions |-> DeltaAdditions(config_data, patched_config_data),
     deletions |-> DeltaDeletions(config_data, patched_config_data),
     updates |-> DeltaUpdates(config_data, patched_config_data)]

\* open(self.config_file) or, after config.json was read, open(self.patched_config_file)
\* raises FileNotFoundError
DeltaInputNotFound ==
    \/ config_file.kind = "missing"
    \/ config_file.kind = "ok" /\ patched_config_file.kind = "missing"

\* json.load raises JSONDecodeError on the first of the two files, or on the second
DeltaInputMalformed ==
    \/ config_file.kind = "malformed"
    \/ config_file.kind = "ok" /\ patched_config_file.kind = "malformed"

GenerateDeltaJsonNotFound ==
    /\ pc = "generate_delta_json"
    /\ DeltaInputNotFound
    /\ printed' = printed \cup {"config not found"}
    /\ ret' = [ret EXCEPT !.generate_delta_json = "False"]
    /\ pc' = "generate_res_patched_config_json"
    /\ UNCHANGED <<files, classes, root_class_name, res_patched_config, written>>

GenerateDeltaJsonDecodeError ==
    /\ pc = "generate_delta_json"
    /\ DeltaInputMalformed
    /\ printed' = printed \cup {"config not json"}
    /\ ret' = [ret EXCEPT !.generate_delta_json = "False"]
    /\ pc' = "generate_res_patched_config_json"
    /\ UNCHANGED <<files, classes, root_class_name, res_patched_config, written>>

GenerateDeltaJsonOk ==
    /\ pc = "generate_delta_json"
    /\ config_file.kind = "ok" /\ patched_config_file.kind = "ok"
    /\ delta_json' = File(Delta(config_file.data, patched_config_file.data))
    /\ written' = written \cup {"delta.json"}
    /\ printed' = printed \cup {"delta.json generated"}
    /\ ret' = [ret EXCEPT !.generate_delta_json = "True"]
    /\ pc' = "generate_res_patched_config_json"
    /\ UNCHANGED <<xml_file, config_file, patched_config_file, res_json, config_xml,
                   meta_json, classes, root_class_name, res_patched_config>>

\* open(output_file, "w") raises IOError: delta.json stays as it was
GenerateDeltaJsonIOError ==
    /\ pc = "generate_delta_json"
    /\ config_file.kind = "ok" /\ patched_config_file.kind = "ok"
    /\ printed' = printed \cup {"delta.json not written"}
    /\ ret' = [ret EXCEPT !.generate_delta_json = "False"]
    /\ pc' = "generate_res_patched_config_json"
    /\ UNCHANGED <<files, classes, root_class_name, res_patched_config, written>>

\* ---------------------------------------- generate_res_patched_config_json

\* del d[key]
Del(m, key) == [k \in DOMAIN m \ {key} |-> m[k]]

\* d[key] = value
Put(m, key, value) == [k \in DOMAIN m \cup {key} |-> IF k = key THEN value ELSE m[k]]

\* for key in delta_data["deletions"]: if key in res_patched_config: del ...
RECURSIVE ApplyDeletions(_, _)
ApplyDeletions(m, deletions) ==
    IF deletions = <<>> THEN m
    ELSE ApplyDeletions(IF Head(deletions) \in DOMAIN m THEN Del(m, Head(deletions)) ELSE m,
                        Tail(deletions))

\* for item in delta_data["additions"]: res_patched_config[item["key"]] = item["value"]
RECURSIVE ApplyAdditions(_, _)
ApplyAdditions(m, additions) ==
    IF additions = <<>> THEN m
    ELSE ApplyAdditions(Put(m, Head(additions).key, Head(additions).value),
                        Tail(additions))

\* a mutation of ApplyUpdates: the loop applies the first update whose "from" is
\* the current value of its key, and returns
RECURSIVE ApplyUpdatesMatchingFrom(_, _)
ApplyUpdatesMatchingFrom(m, updates) ==
    IF updates = <<>> THEN m
    ELSE IF Head(updates).key \in DOMAIN m /\ m[Head(updates).key] = Head(updates).from
         THEN Put(m, Head(updates).key, Head(updates).to)
         ELSE ApplyUpdatesMatchingFrom(m, Tail(updates))

\* for item in delta_data["updates"]: res_patched_config[item["key"]] = item["to"];
\* the body of the loop goes on to write the file and return, so only the first
\* item is ever applied
ApplyUpdates(m, updates) ==
    IF updates = <<>> THEN m
    ELSE Put(m, Head(updates).key, Head(updates).to)

\* res_patched_config when the method returns
Patched(config_data, delta_data) ==
    ApplyUpdates(
        ApplyAdditions(ApplyDeletions(config_data, delta_data.deletions),
                       delta_data.additions),
        delta_data.updates)

ResInputNotFound ==
    \/ config_file.kind = "missing"
    \/ config_file.kind = "ok" /\ delta_json.kind = "missing"

ResInputMalformed ==
    \/ config_file.kind = "malformed"
    \/ config_file.kind = "ok" /\ delta_json.kind = "malformed"

GenerateResNotFound ==
    /\ pc = "generate_res_patched_config_json"
    /\ ResInputNotFound
    /\ printed' = printed \cup {"config or delta not found"}
    /\ ret' = [ret EXCEPT !.generate_res_patched_config_json = "False"]
    /\ pc' = "returned"
    /\ UNCHANGED <<files, classes, root_class_name, res_patched_config, written>>

GenerateResDecodeError ==
    /\ pc = "generate_res_patched_config_json"
    /\ ResInputMalformed
    /\ printed' = printed \cup {"config or delta not json"}
    /\ ret' = [ret EXCEPT !.generate_res_patched_config_json = "False"]
    /\ pc' = "returned"
    /\ UNCHANGED <<files, classes, root_class_name, res_patched_config, written>>

\* delta_data["updates"] is empty: the loop body, which holds the write, never
\* runs, and the method returns True
GenerateResNoUpdates ==
    /\ pc = "generate_res_patched_config_json"
    /\ config_file.kind = "ok" /\ delta_json.kind = "ok"
    /\ delta_json.data.updates = <<>>
    /\ res_patched_config' = File(Patched(config_file.data, delta_json.data))
    /\ ret' = [ret EXCEPT !.generate_res_patched_config_json = "True"]
    /\ pc' = "returned"
    /\ UNCHANGED <<files, classes, root_class_name, printed, written>>

\* first iteration of the updates loop: the update, the write, return False
GenerateResFirstUpdate ==
    /\ pc = "generate_res_patched_config_json"
    /\ config_file.kind = "ok" /\ delta_json.kind = "ok"
    /\ delta_json.data.updates # <<>>
    /\ res_patched_config' = File(Patched(config_file.data, delta_json.data))
    /\ res_json' = res_patched_config'
    /\ written' = written \cup {"res_patched_config.json"}
    /\ printed' = printed \cup {"res_patched_config.json generated"}
    /\ ret' = [ret EXCEPT !.generate_res_patched_config_json = "False"]
    /\ pc' = "returned"
    /\ UNCHANGED <<xml_file, config_file, patched_config_file, delta_json, config_xml,
                   meta_json, classes, root_class_name>>

\* first iteration of the updates loop, open(output_file, "w") raises IOError
GenerateResIOError ==
    /\ pc = "generate_res_patched_config_json"
    /\ config_file.kind = "ok" /\ delta_json.kind = "ok"
    /\ delta_json.data.updates # <<>>
    /\ res_patched_config' = File(Patched(config_file.data, delta_json.data))
    /\ printed' = printed \cup {"res_patched_config.json not written"}
    /\ ret' = [ret EXCEPT !.generate_res_patched_config_json = "False"]
    /\ pc' = "returned"
    /\ UNCHANGED <<files, classes, root_class_name, written>>

\* -------------------------------------------------------------------- main

Methods == {"load_xml", "generate_config_xml", "generate_meta_json",
            "generate_delta_json", "generate_res_patched_config_json"}

Maps(K) == UNION {[S -> Values] : S \in SUBSET K}

AdditionItems == [key : DeltaKeys, value : DeltaValues]
UpdateItems == [key : DeltaKeys, from : DeltaValues, to : DeltaValues]

\* the contents a delta.json left by an earlier run, or by hand, may have
Deltas ==
    {d \in [additions : SeqsUpTo(AdditionItems, MaxDelta),
            deletions : SeqsUpTo(DeltaKeys, MaxDelta),
            updates : SeqsUpTo(UpdateItems, MaxDelta)] :
        Len(d.additions) + Len(d.deletions) + Len(d.updates) <= MaxDelta}

\* the generator as __init__ leaves it, no output written yet
Constructed ==
    /\ res_json = Missing
    /\ config_xml = Missing
    /\ meta_json = Missing
    /\ classes = <<>>
    /\ root_class_name = None
    /\ res_patched_config = Missing
    /\ ret = [m \in Methods |-> "-"]
    /\ printed = {}
    /\ written = {}
    /\ pc = "load_xml"

\* a run of main() over every schema description, with a few flat maps
Init ==
    /\ xml_file \in {Missing, Malformed} \cup {File(d) : d \in XmlDocs}
    /\ config_file \in {Missing, Malformed, File([k \in {"a"} |-> 1])}
    /\ patched_config_file \in
           {Missing, Malformed, File([k \in {"a"} |-> 1]), File([k \in {"a"} |-> 2])}
    /\ delta_json \in {Missing, Malformed}
    /\ Constructed

LoadXml == LoadXmlNotFound \/ LoadXmlParseError \/ LoadXmlKeyError \/ LoadXmlOk
GenerateConfigXml == GenerateConfigXmlOk \/ GenerateConfigXmlIOError
GenerateMetaJson == GenerateMetaJsonOk \/ GenerateMetaJsonIOError
GenerateDeltaJson ==
    \/ GenerateDeltaJsonNotFound
    \/ GenerateDeltaJsonDecodeError
    \/ GenerateDeltaJsonOk
    \/ GenerateDeltaJsonIOError
GenerateResPatchedConfigJson ==
    \/ GenerateResNotFound
    \/ GenerateResDecodeError
    \/ GenerateResNoUpdates
    \/ GenerateResFirstUpdate
    \/ GenerateResIOError

Next ==
    \/ LoadXml
    \/ GenerateConfigXml
    \/ GenerateMetaJson
    \/ GenerateDeltaJson
    \/ GenerateResPatchedConfigJson

Spec == Init /\ [][Next]_vars

\* main() from its call of generate_delta_json on, the schema being the empty
\* description (no Class, no Aggregation) and both documents written
AtDeltaStages ==
    /\ xml_file = File(<<>>)
    /\ res_json = Missing
    /\ config_xml = File(xml_content)
    /\ meta_json = File(meta_data)
    /\ classes = <<>>
    /\ root_class_name = None
    /\ res_patched_config = Missing
    /\ ret = [m \in Methods |->
                 IF m \in {"generate_delta_json", "generate_res_patched_config_json"}
                 THEN "-" ELSE "True"]
    /\ printed = {"config.xml generated", "meta.json generated"}
    /\ written = {"config.xml", "meta.json"}
    /\ pc = "generate_delta_json"

NextDelta == GenerateDeltaJson \/ GenerateResPatchedConfigJson

\* every pair of flat maps over Keys, delta.json absent, unreadable or stale
InitCompute ==
    /\ config_file \in {Missing, Malformed} \cup {File(m) : m \in Maps(Keys)}
    /\ patched_config_file \in {Missing, Malformed} \cup {File(m) : m \in Maps(Keys)}
    /\ delta_json \in {Missing, Malformed}
    /\ AtDeltaStages

SpecCompute == InitCompute /\ [][NextDelta]_vars

\* every base map over DeltaKeys and every delta.json of at most MaxDelta entries
InitApply ==
    /\ config_file \in {Missing, Malformed} \cup {File(m) : m \in Maps(DeltaKeys)}
    /\ patched_config_file \in
           {Missing, Malformed, File([k \in {"a"} |-> 1]), File([k \in {"b"} |-> 2])}
    /\ delta_json \in {Missing, Malformed} \cup {File(d) : d \in Deltas}
    /\ AtDeltaStages

SpecApply == InitApply /\ [][NextDelta]_vars

\* ------------------------------------------------------------------ claims

ApplyMethod == "generate_res_patched_config_json"
BothMapsRead == config_file.kind = "ok" /\ patched_config_file.kind = "ok"
DeltaRead == config_file.kind = "ok" /\ delta_json.kind = "ok"
ResWriteFailed == "res_patched_config.json not written" \in printed
ResWritten == "res_patched_config.json" \in written

\* C1: round trip. Once both stages have run on readable maps (base, target), the
\* delta written and no write refused, the persisted patched map is the target.
C1_RoundTrip ==
    (/\ pc = "returned"
     /\ BothMapsRead
     /\ ret.generate_delta_json = "True"
     /\ ~ResWriteFailed)
    => res_json = patched_config_file

\* the map the contract of Apply describes: every update is applied
RECURSIVE AllUpdates(_, _)
AllUpdates(m, updates) ==
    IF updates = <<>> THEN m
    ELSE AllUpdates(Put(m, Head(updates).key, Head(updates).to), Tail(updates))

ContractApply(base, d) ==
    AllUpdates(ApplyAdditions(ApplyDeletions(base, d.deletions), d.additions),
               d.updates)

\* C2: Apply on any delta. The patched map the apply stage produces is base minus
\* the deletions, then every addition set, then every update set to its "to".
C2_ApplyContract ==
    (pc = "returned" /\ DeltaRead)
    => res_patched_config = File(ContractApply(config_file.data, delta_json.data))

Count(keys, k) == Cardinality({i \in 1..Len(keys) : keys[i] = k})
KeysIn(items) == [i \in 1..Len(items) |-> items[i].key]

\* C3: partition. In the delta computed from (base, target) a key only in target
\* is listed once, in additions; a key only in base once, in deletions; a key of
\* both with different values once, in updates; a key of both with equal values
\* nowhere; and no other key is listed.
C3_Partition ==
    ret.generate_delta_json = "True" =>
        LET base == config_file.data
            target == patched_config_file.data
            d == delta_json.data
            a(k) == Count(KeysIn(d.additions), k)
            x(k) == Count(d.deletions, k)
            u(k) == Count(KeysIn(d.updates), k)
        IN  \A k \in Keys :
                <<a(k), x(k), u(k)>> =
                    IF k \in DOMAIN target \ DOMAIN base THEN <<1, 0, 0>>
                    ELSE IF k \in DOMAIN base \ DOMAIN target THEN <<0, 1, 0>>
                    ELSE IF k \in DOMAIN base /\ base[k] # target[k] THEN <<0, 0, 1>>
                    ELSE <<0, 0, 0>>

\* a computed delta with an addition, a deletion and an update
C3_Witness ==
    /\ ret.generate_delta_json = "True"
    /\ delta_json.data.additions # <<>>
    /\ delta_json.data.deletions # <<>>
    /\ delta_json.data.updates # <<>>

Range(seq) == {seq[i] : i \in 1..Len(seq)}

\* the keys a delta adds or updates are none of the keys it deletes
DeletesApart(d) ==
    (Range(KeysIn(d.additions)) \cup Range(KeysIn(d.updates))) \cap Range(d.deletions) = {}

\* C4: idempotence. For a delta whose added and updated keys are none of its
\* deleted keys, applying it to the map the apply stage produced from base gives
\* that map again.
C4_Idempotent ==
    (ret[ApplyMethod] # "-" /\ DeltaRead /\ DeletesApart(delta_json.data))
    => Patched(res_patched_config.data, delta_json.data) = res_patched_config.data

\* the apply stage has run on a delta that deletes a key of base and updates one,
\* and the map it produced is not base
C4_Witness ==
    /\ ret[ApplyMethod] # "-" /\ DeltaRead /\ DeletesApart(delta_json.data)
    /\ \E i \in 1..Len(delta_json.data.deletions) :
           delta_json.data.deletions[i] \in DOMAIN config_file.data
    /\ delta_json.data.updates # <<>>
    /\ res_patched_config.data # config_file.data

LoadFailed == pc = "raised" \/ ret.load_xml = "False"
LoadReported == {"xml not found", "xml not parsed"} \cap printed # {}

\* C5: stage independence. When load_xml has failed and main() has ended, the
\* failure was reported, neither config.xml nor meta.json was written, and both
\* Delta Engine stages were attempted.
C5_StageIndependence ==
    (pc \in {"returned", "raised"} /\ LoadFailed)
    => /\ LoadReported
       /\ written \cap {"config.xml", "meta.json"} = {}
       /\ ret.generate_delta_json # "-"
       /\ ret[ApplyMethod] # "-"

\* C6: builder atomicity. Once load_xml is over it has returned True or False (no
\* exception left it), and after a failure the generator shows no class and no
\* root name.
C6_BuilderAtomic ==
    pc # "load_xml" =>
        /\ ret.load_xml \in {"True", "False"}
        /\ ret.load_xml = "False" => classes = <<>> /\ root_class_name = None

\* "min..max" split on the range separator, or the single value twice
Bounds(multiplicity) ==
    IF multiplicity = "0..100" THEN [min |-> "0", max |-> "100"]
    ELSE [min |-> multiplicity, max |-> multiplicity]

Descriptor(c) ==
    LET b == IF c.aggregations = <<>> THEN [min |-> "1", max |-> "1"]
             ELSE Bounds(c.aggregations[1].sourceMultiplicity)
    IN  [class |-> c.name, documentation |-> c.documentation, isRoot |-> c.isRoot,
         min |-> b.min, max |-> b.max,
         parameters |->
             c.attributes \o
             [i \in 1..Len(c.aggregations) |->
                 [name |-> c.aggregations[i].target, type |-> "class"]]]

\* C7: the meta document written holds one descriptor per loaded class, in
\* insertion order, built from that class's attributes and aggregations.
C7_MetaOfModel ==
    "meta.json" \in written =>
        meta_json = File([i \in 1..Len(classes) |-> Descriptor(classes[i])])

ClassNamed(n) == classes[CHOOSE i \in 1..Len(classes) : classes[i].name = n]

\* the aggregations from class n reach declared classes only, and no class twice
\* on one path
RECURSIVE IsTree(_, _)
IsTree(n, path) ==
    /\ HasClass(classes, n)
    /\ n \notin path
    /\ \A i \in 1..Len(ClassNamed(n).aggregations) :
           IsTree(ClassNamed(n).aggregations[i].target, path \cup {n})

RECURSIVE Element(_)
Element(n) ==
    Node(n,
         [i \in 1..Len(ClassNamed(n).attributes) |->
             Leaf(ClassNamed(n).attributes[i].name, ClassNamed(n).attributes[i].type)]
         \o
         [i \in 1..Len(ClassNamed(n).aggregations) |->
             Element(ClassNamed(n).aggregations[i].target)])

\* C8: for a loaded model with a root and no aggregation cycle below it, the
\* document written is the element tree of the aggregation structure at the root.
C8_DocumentOfModel ==
    ("config.xml" \in written /\ root_class_name # None /\ IsTree(root_class_name, {}))
    => config_xml = File(Element(root_class_name))

\* C9: result flag. After the apply stage has read its two inputs, it returned
\* True exactly when it wrote the patched map.
C9_ResultFlag ==
    (pc = "returned" /\ DeltaRead)
    => (ret[ApplyMethod] = "True" <=> ResWritten)

\* C10: hand-off. A patched map is written only from a delta the compute stage
\* wrote in the same run, from the same base and the target.
C10_HandOff ==
    ResWritten =>
        /\ ret.generate_delta_json = "True"
        /\ delta_json = File(Delta(config_file.data, patched_config_file.data))

====
